---------------------------- MODULE Spec2Model ----------------------------
(***************************************************************************)
(* A model of the PBR fragment shader (src/src/shader/pbr.frag.ts, lines   *)
(* 1-138) and of the driver that feeds it (Application, lines 214-419).    *)
(*                                                                         *)
(* Numbers.  The shader computes in GLSL `highp float`.  A float is        *)
(* modelled as a binary floating-point number  m * 2^e  with a PREC-bit    *)
(* significand, round-to-nearest-even after every operation, the exponent  *)
(* range of IEEE single precision, and the two special kinds "inf" and     *)
(* "nan".  PREC is smaller than the 24 bits of single precision so that    *)
(* every intermediate fits the model checker's integers; all operations    *)
(* are otherwise computed as the hardware computes them.  The sign of a    *)
(* zero is not kept (0 and -0 compare equal in GLSL).                      *)
(***************************************************************************)
EXTENDS Integers, Sequences, FiniteSets, TLC

\* Significand width of the modelled float format.
PREC == 10

\* Exponent range of IEEE single precision (precision highp float).
EMAX == 127
EMIN == -126

VARIABLES
  invalid,    \* the value an invalid operation (0/0, inf*0, inf-inf) yields
  \* the fragment shader's uniforms and varyings
  uLightCount, uLightPositions, uLightColors, uLightIntensities,
  uMaterial, roughness, metallic,
  vPositionWS, vNormalWS, ViewDirectionWS,
  \* one invocation of the fragment shader's main()
  pc, i, albedo, w_o, normal, irradiance, outFragColor,
  trace,      \* history: the stages main() has run, in order
  reads,      \* history: the light-array elements main() has read
  prevOut,    \* history: the output of the draw before a uniform changed
  \* one call of calculateBRDF: its arguments, and its locals and results
  bpc, call, ret,
  \* tonemap applied to increasing channel values, one call after another
  tpc, tin, tout,
  \* the Application: its fields, the GUI changes made, the draws of the
  \* last render()
  guiProperties, lights, sphereProperties, uniforms, draws, guiChanges

fragVars == <<uLightCount, uLightPositions, uLightColors, uLightIntensities,
              uMaterial, roughness, metallic,
              vPositionWS, vNormalWS, ViewDirectionWS,
              pc, i, albedo, w_o, normal, irradiance, outFragColor,
              trace, reads, prevOut>>

uniformVars == <<uLightCount, uLightPositions, uLightColors, uLightIntensities,
                 uMaterial, roughness, metallic,
                 vPositionWS, vNormalWS, ViewDirectionWS>>

brdfVars == <<bpc, call, ret>>
toneVars == <<tpc, tin, tout>>
appVars == <<guiProperties, lights, sphereProperties, uniforms, draws, guiChanges>>

vars == <<invalid, fragVars, brdfVars, toneVars, appVars>>

\* What a step of main(), of a call of calculateBRDF, of a call of tonemap
\* and of the Application leaves alone.
FragFrame == UNCHANGED <<invalid, brdfVars, toneVars, appVars>>
BRDFFrame == UNCHANGED <<invalid, fragVars, toneVars, appVars>>
ToneFrame == UNCHANGED <<invalid, fragVars, brdfVars, appVars>>
AppFrame == UNCHANGED <<invalid, fragVars, brdfVars, toneVars>>

----------------------------------------------------------------------------
(* Evaluation.  Only({e : x \in {v}}) is "LET x == v IN e" with v          *)
(* evaluated once, whatever the number of times e uses x; the operators    *)
(* below bind their arguments and their locals this way.                   *)

Only(S) == CHOOSE r \in S : TRUE

----------------------------------------------------------------------------
(* Floating point                                                          *)

Pow2(n) == 2 ^ n

\* The number of bits of M >= 0.
BitLen(M) == CHOOSE n \in 0..30 : M < 2 ^ n /\ (n = 0 \/ M >= 2 ^ (n - 1))

Abs(n) == IF n < 0 THEN -n ELSE n
Sgn(n) == IF n < 0 THEN -1 ELSE 1

NaN == [k |-> "nan", m |-> 0, e |-> 0]
Inf(s) == [k |-> "inf", m |-> s, e |-> 0]
Zero == [k |-> "fin", m |-> 0, e |-> 0]
Fin(m, e) == [k |-> "fin", m |-> m, e |-> e]

IsNaN(a) == a.k = "nan"
IsInf(a) == a.k = "inf"
IsFinite(a) == a.k = "fin"
IsZero(a) == a.k = "fin" /\ a.m = 0

\* The outcomes of an invalid operation: GLSL ES 3.00 does not require NaN
\* to be supported, and leaves the result unspecified where it is not.
InvalidOutcomes == {NaN, Zero, Inf(1)}

\* A finite value s * m * 2^e placed in the format: overflow gives an
\* infinity, a value below the normal range is flushed to zero.
Ranged(s, m, e) ==
  IF e + PREC - 1 > EMAX THEN Inf(s)
  ELSE IF e + PREC - 1 < EMIN THEN Zero
  ELSE Fin(s * m, e)

RoundVal(s, M, e, n) ==
  IF n <= PREC
  THEN Ranged(s, M * Pow2(PREC - n), e - (PREC - n))
  ELSE Only({ IF q + up = Pow2(PREC)
              THEN Ranged(s, Pow2(PREC - 1), e + (n - PREC) + 1)
              ELSE Ranged(s, q + up, e + (n - PREC))
              : q \in {M \div Pow2(n - PREC)},
                up \in {IF \/ 2 * (M % Pow2(n - PREC)) > Pow2(n - PREC)
                           \/ /\ 2 * (M % Pow2(n - PREC)) = Pow2(n - PREC)
                              /\ (M \div Pow2(n - PREC)) % 2 = 1
                        THEN 1 ELSE 0} })

\* s * M * 2^e (M >= 0) rounded to PREC bits, ties to even.
Round(s, M, e) ==
  Only({ IF M1 = 0 THEN Zero ELSE RoundVal(s1, M1, e1, BitLen(M1))
         : s1 \in {s}, M1 \in {M}, e1 \in {e} })

FromInt(n) == Round(Sgn(n), Abs(n), 0)

FDivFin(a, b) ==
  Only({ Round(Sgn(a.m) * Sgn(b.m),
               2 * (N \div Abs(b.m)) + (IF N % Abs(b.m) = 0 THEN 0 ELSE 1),
               a.e - b.e - (PREC + 2) - 1)
         : N \in {Abs(a.m) * Pow2(PREC + 2)} })

FNegVal(a) ==
  CASE a.k = "nan" -> NaN
    [] a.k = "inf" -> Inf(-a.m)
    [] OTHER -> Fin(-a.m, a.e)

\* -x
FNeg(x) == Only({FNegVal(a) : a \in {x}})

\* hi + lo for finite non-zero values with hi.e >= lo.e
FAddAligned(hi, lo) ==
  IF hi.e - lo.e > PREC + 2 THEN hi
  ELSE Only({ Round(Sgn(M), Abs(M), lo.e)
              : M \in {hi.m * Pow2(hi.e - lo.e) + lo.m} })

FAddVal(a, b) ==
  CASE a.k = "nan" \/ b.k = "nan" -> NaN
    [] a.k = "inf" /\ b.k = "inf" -> IF a.m = b.m THEN a ELSE invalid
    [] a.k = "inf" -> a
    [] b.k = "inf" -> b
    [] a.m = 0 -> b
    [] b.m = 0 -> a
    [] a.e >= b.e -> FAddAligned(a, b)
    [] OTHER -> FAddAligned(b, a)

\* x + y
FAdd(x, y) == Only({FAddVal(a, b) : a \in {x}, b \in {y}})

\* x - y
FSub(x, y) == Only({FAddVal(a, FNegVal(b)) : a \in {x}, b \in {y}})

FMulVal(a, b) ==
  CASE a.k = "nan" \/ b.k = "nan" -> NaN
    [] a.k = "inf" /\ b.k = "inf" -> Inf(a.m * b.m)
    [] a.k = "inf" -> IF b.m = 0 THEN invalid ELSE Inf(a.m * Sgn(b.m))
    [] b.k = "inf" -> IF a.m = 0 THEN invalid ELSE Inf(b.m * Sgn(a.m))
    [] OTHER -> Round(Sgn(a.m) * Sgn(b.m), Abs(a.m) * Abs(b.m), a.e + b.e)

\* x * y
FMul(x, y) == Only({FMulVal(a, b) : a \in {x}, b \in {y}})

\* A non-zero value divided by zero is the signed infinity; 0/0 and inf/inf
\* are invalid.
FDivVal(a, b) ==
  CASE a.k = "nan" \/ b.k = "nan" -> NaN
    [] a.k = "inf" /\ b.k = "inf" -> invalid
    [] a.k = "inf" -> Inf(a.m * Sgn(b.m))
    [] b.k = "inf" -> Zero
    [] b.m = 0 -> IF a.m = 0 THEN invalid ELSE Inf(Sgn(a.m))
    [] a.m = 0 -> Zero
    [] OTHER -> FDivFin(a, b)

\* x / y
FDiv(x, y) == Only({FDivVal(a, b) : a \in {x}, b \in {y}})

\* The bits of r/d (r < d) after the first nbits, a sticky bit last.
RECURSIVE LitBits(_, _, _, _)
LitBits(r, d, nbits, acc) ==
  Only({ IF n1 = 0 THEN 2 * a1 + (IF r1 = 0 THEN 0 ELSE 1)
         ELSE IF 2 * r1 >= d THEN LitBits(2 * r1 - d, d, n1 - 1, 2 * a1 + 1)
         ELSE LitBits(2 * r1, d, n1 - 1, 2 * a1)
         : r1 \in {r}, n1 \in {nbits}, a1 \in {acc} })

RECURSIVE LitScaled(_, _, _)
LitScaled(n, d, e) ==
  Only({ IF n1 >= 2 * d1 THEN LitScaled(n1, 2 * d1, e1 + 1)
         ELSE IF n1 < d1 THEN LitScaled(2 * n1, d1, e1 - 1)
         ELSE Round(1, LitBits(n1 - d1, d1, PREC + 1, 1), e1 - (PREC + 1) - 1)
         : n1 \in {n}, d1 \in {d}, e1 \in {e} })

\* The decimal literal n/d (n >= 0, d > 0) of the source text, correctly
\* rounded.  Literals of more than seven digits are written with seven: the
\* difference is below the resolution of single precision.
Lit(n, d) == IF n = 0 THEN Zero ELSE LitScaled(n, d, 0)

One == FromInt(1)

FLtVal(a, b) ==
  CASE a.k = "nan" \/ b.k = "nan" -> FALSE
    [] a.k = "inf" /\ b.k = "inf" -> a.m < b.m
    [] a.k = "inf" -> a.m < 0
    [] b.k = "inf" -> b.m > 0
    [] a.m <= 0 /\ b.m >= 0 -> a.m < b.m
    [] a.m >= 0 /\ b.m <= 0 -> FALSE
    [] a.m > 0 -> a.e < b.e \/ (a.e = b.e /\ a.m < b.m)
    [] OTHER -> a.e > b.e \/ (a.e = b.e /\ a.m < b.m)

\* x < y (false when either is NaN)
FLt(x, y) == \E a \in {x}, b \in {y} : FLtVal(a, b)

\* x <= y (false when either is NaN)
FLe(x, y) == \E a \in {x}, b \in {y} : FLtVal(a, b) \/ (a.k # "nan" /\ a = b)

\* GLSL max(x, y): y if x < y, otherwise x.
FMax(x, y) == Only({IF FLtVal(a, b) THEN b ELSE a : a \in {x}, b \in {y}})

RECURSIVE Newton(_, _)
Newton(x, n) ==
  Only({ IF y >= x1 THEN x1 ELSE Newton(y, n)
         : x1 \in {x}, y \in {(x + n \div x) \div 2} })

\* floor(sqrt(n)), n > 0
ISqrt(n) == Newton(Pow2((BitLen(n) + 1) \div 2), n)

\* sqrt of a finite a > 0, from the integer root of its significand scaled
\* by 2^s, s chosen to make the remaining exponent even
FSqrtFin(a, s) ==
  Only({ Only({ Round(1, 2 * r + (IF r * r = M THEN 0 ELSE 1),
                      (a.e - s) \div 2 - 1)
                : r \in {ISqrt(M)} })
         : M \in {a.m * Pow2(s)} })

FSqrtVal(a) ==
  CASE a.k = "nan" -> NaN
    [] a.k = "inf" -> IF a.m > 0 THEN a ELSE invalid
    [] a.m = 0 -> Zero
    [] a.m < 0 -> invalid
    [] OTHER -> FSqrtFin(a, IF (a.e - (PREC + 3)) % 2 = 0
                            THEN PREC + 3 ELSE PREC + 4)

\* GLSL sqrt(x); the result is undefined for x < 0.
FSqrt(x) == Only({FSqrtVal(a) : a \in {x}})

\* a^n for an integer n >= 1, by repeated multiplication
RECURSIVE FPowInt(_, _)
FPowInt(a, n) ==
  Only({ IF n1 = 1 THEN a1 ELSE FMulVal(FPowInt(a1, n1 - 1), a1)
         : a1 \in {a}, n1 \in {n} })

\* The largest significand r in lo..hi with (r * 2^-(PREC-1))^q <= t.
RECURSIVE RootSearch(_, _, _, _)
RootSearch(lo, hi, q, t) ==
  Only({ IF lo1 = hi1 THEN lo1
         ELSE Only({ IF FLe(FPowInt(Fin(mid, -(PREC - 1)), q), t)
                     THEN RootSearch(mid, hi1, q, t)
                     ELSE RootSearch(lo1, mid - 1, q, t)
                     : mid \in {(lo1 + hi1 + 1) \div 2} })
         : lo1 \in {lo}, hi1 \in {hi} })

\* The q-th root of a finite a > 0, a = t * 2^(q*k) with 1 <= t < 2^q.
FRoot(a, q) ==
  IF q = 1 THEN a
  ELSE Only({ Fin(RootSearch(Pow2(PREC - 1), Pow2(PREC) - 1, q,
                             Fin(a.m, (a.e + PREC - 1) - q * k - (PREC - 1))),
                  k - (PREC - 1))
              : k \in {(a.e + PREC - 1) \div q} })

FPowVal(x, p, q) ==
  CASE x.k = "nan" -> NaN
    [] x.k = "inf" -> IF x.m > 0 THEN x ELSE invalid
    [] x.m = 0 -> Zero
    [] x.m < 0 -> invalid
    [] OTHER -> Only({ IF xp.k = "fin" /\ xp.m > 0 THEN FRoot(xp, q) ELSE xp
                       : xp \in {FPowInt(x, p)} })

\* GLSL pow(x, y) for the exponent y = p/q > 0: undefined for x < 0.
FPow(x, p, q) == Only({FPowVal(a, p, q) : a \in {x}})

----------------------------------------------------------------------------
(* GLSL vectors and built-ins                                              *)

vec3(x) == Only({<<a, a, a>> : a \in {x}})

VAdd(x, y) ==
  Only({ <<FAddVal(a[1], b[1]), FAddVal(a[2], b[2]), FAddVal(a[3], b[3])>>
         : a \in {x}, b \in {y} })

VSub(x, y) ==
  Only({ <<FSub(a[1], b[1]), FSub(a[2], b[2]), FSub(a[3], b[3])>>
         : a \in {x}, b \in {y} })

VMul(x, y) ==
  Only({ <<FMulVal(a[1], b[1]), FMulVal(a[2], b[2]), FMulVal(a[3], b[3])>>
         : a \in {x}, b \in {y} })

\* vec3 * float
VScale(x, y) ==
  Only({ <<FMulVal(a[1], b), FMulVal(a[2], b), FMulVal(a[3], b)>>
         : a \in {x}, b \in {y} })

\* vec3 / float
VDivS(x, y) ==
  Only({ <<FDivVal(a[1], b), FDivVal(a[2], b), FDivVal(a[3], b)>>
         : a \in {x}, b \in {y} })

dot(x, y) ==
  Only({ FAdd(FAdd(FMulVal(a[1], b[1]), FMulVal(a[2], b[2])), FMulVal(a[3], b[3]))
         : a \in {x}, b \in {y} })

length(x) == Only({FSqrt(dot(a, a)) : a \in {x}})

\* normalize(v) = v / length(v): the zero vector gives 0/0 in each component
normalize(x) == Only({VDivS(a, length(a)) : a \in {x}})

\* mix(x, y, a) = x * (1 - a) + y * a
mix(x, y, a) == Only({FAdd(FMulVal(x, FSub(One, a1)), FMulVal(y, a1)) : a1 \in {a}})

\* float(x <= y), one component of vec3(lessThanEqual(x, y))
lessThanEqual(x, y) == IF FLe(x, y) THEN One ELSE Zero

VFinite(a) == IsFinite(a[1]) /\ IsFinite(a[2]) /\ IsFinite(a[3])
Zero3 == <<Zero, Zero, Zero>>

----------------------------------------------------------------------------
(* The fragment shader's functions.  A parameter that shares its name with *)
(* a uniform or a local of main() carries a 0: albedo0, normal0, w_o0,     *)
(* roughness0, metallic0.  Every argument passed to them is a value.       *)

MAX_LIGHTS == 10

PI == Lit(314159, 100000)

sRGBToLinearChannel(c) ==
  mix(FPow(FAdd(FMul(c, Lit(9478673, 10000000)), Lit(521327, 10000000)), 12, 5),
      FMul(c, Lit(773994, 10000000)),
      lessThanEqual(c, Lit(4045, 100000)))

\* vec4 sRGBToLinear(vec4 value)
sRGBToLinear(value) ==
  <<sRGBToLinearChannel(value[1]), sRGBToLinearChannel(value[2]),
    sRGBToLinearChannel(value[3]), value[4]>>

\* The exponent 0.41666 is taken as 5/12.
LinearTosRGBChannel(c) ==
  mix(FSub(FMul(FPow(c, 5, 12), Lit(1055, 1000)), Lit(55, 1000)),
      FMul(c, Lit(1292, 100)),
      lessThanEqual(c, Lit(31308, 10000000)))

\* vec4 LinearTosRGB(vec4 value)
LinearTosRGB(value) ==
  <<LinearTosRGBChannel(value[1]), LinearTosRGBChannel(value[2]),
    LinearTosRGBChannel(value[3]), value[4]>>

\* 4.0 * 3.14159 * distance * distance, the divisor of calculatePointLight
calculatePointLightDivisor(light, position) ==
  Only({ FMul(FMul(FMul(FromInt(4), PI), distance), distance)
         : distance \in {length(VSub(light.pos, position))} })

calculatePointLight(light, position) ==
  VScale(light.color,
         FDiv(light.intensity, calculatePointLightDivisor(light, position)))

\* c / c + 1.0 in place of c / (c + 1.0)
tonemapChannel_Unparenthesised(c) == Only({FAdd(FDiv(c1, c1), One) : c1 \in {c}})

tonemapChannel(c) == Only({FDiv(c1, FAdd(c1, One)) : c1 \in {c}})

\* Reinhard tonemapping
tonemap(color) ==
  <<tonemapChannel(color[1]), tonemapChannel(color[2]), tonemapChannel(color[3])>>

\* Lambertian BRDF
calculateDiffuseBRDF(albedo0) == VDivS(albedo0, PI)

calculateDistributionGGX(normal0, halfVector, roughness0) ==
  Only({ Only({ Only({ FDiv(a2, FMul(FMul(PI, denom), denom))
                       : denom \in {FAdd(FMul(nDotH2, FSub(a2, One)), One)} })
                : nDotH2 \in {FMul(nDotH, nDotH)} })
         : a2 \in {FMul(roughness0, roughness0)},
           nDotH \in {FMax(dot(normal0, halfVector), Zero)} })

calculateGeometrySchlick(normal0, dir, k) ==
  Only({ FDiv(ndot, FAdd(FMul(ndot, FSub(One, k)), k))
         : ndot \in {FMax(dot(normal0, dir), Zero)} })

calculateGeometrySmith(normal0, w_i, w_o0, k) ==
  FMul(calculateGeometrySchlick(normal0, w_i, k),
       calculateGeometrySchlick(normal0, w_o0, k))

calculateFresnelSchlick(w_i, w_o0, F0) ==
  Only({ Only({ Only({ VAdd(F0, VScale(VSub(vec3(One), F0), FPow(FSub(One, VoH), 5, 1)))
                       : VoH \in {FMax(dot(w_o0, h), Zero)} })
                : h \in {normalize(s)} })
         : s \in {VAdd(w_i, w_o0)} })

\* (D * G) / (4.0 * max(dot(w_o, normal), 0.00001) * max(dot(w_i, normal), 0.00001))
SpecularTerm(D, G, normal0, w_o0, w_i) ==
  FDiv(FMul(D, G),
       FMul(FMul(FromInt(4), FMax(dot(w_o0, normal0), Lit(1, 100000))),
            FMax(dot(w_i, normal0), Lit(1, 100000))))

\* The returned value multiplied by F.
calculateSpecularBRDF_TimesF(albedo0, normal0, w_o0, w_i, roughness0, metallic0, F0) ==
  Only({ VMul(F, vec3(SpecularTerm(D, G, normal0, w_o0, w_i)))
         : D \in {Only({ calculateDistributionGGX(normal0, h, roughness0)
                         : h \in {normalize(VAdd(w_i, w_o0))} })},
           F \in {calculateFresnelSchlick(w_i, w_o0, F0)},
           G \in {Only({ calculateGeometrySmith(normal0, w_i, w_o0, k)
                         : k \in {FDiv(FMul(FAdd(roughness0, One), FAdd(roughness0, One)),
                                       FromInt(8))} })} })

\* F is computed and not used in the returned value, as in the source.
calculateSpecularBRDF(albedo0, normal0, w_o0, w_i, roughness0, metallic0, F0) ==
  Only({ vec3(SpecularTerm(D, G, normal0, w_o0, w_i))
         : D \in {Only({ calculateDistributionGGX(normal0, h, roughness0)
                         : h \in {normalize(VAdd(w_i, w_o0))} })},
           F \in {calculateFresnelSchlick(w_i, w_o0, F0)},
           G \in {Only({ calculateGeometrySmith(normal0, w_i, w_o0, k)
                         : k \in {FDiv(FMul(FAdd(roughness0, One), FAdd(roughness0, One)),
                                       FromInt(8))} })} })

\* The locals of calculateBRDF: w_i, F0, kS, specularBRDF, diffuseBRDF.
BRDFLocals(light, position, normal0, w_o0, roughness0, metallic0, albedo0) ==
  Only({ Only({ [w_i |-> w_i, F0 |-> F0, kS |-> kS, spec |-> spec,
                 specularBRDF |-> VMul(kS, spec),
                 diffuseBRDF |->
                   VScale(VMul(VSub(vec3(One), kS), calculateDiffuseBRDF(albedo0)),
                          FSub(One, metallic0)),
                 nDotL |-> dot(normal0, w_i)]
                : kS \in {calculateFresnelSchlick(w_i, w_o0, F0)},
                  spec \in {calculateSpecularBRDF(albedo0, normal0, w_o0, w_i,
                                                  roughness0, metallic0, F0)} })
         : w_i \in {normalize(VSub(light.pos, position))},
           F0 \in {<<mix(Lit(4, 100), albedo0[1], metallic0),
                     mix(Lit(4, 100), albedo0[2], metallic0),
                     mix(Lit(4, 100), albedo0[3], metallic0)>>} })

\* dot(normal, w_i) in place of max(dot(normal, w_i), 0.0)
calculateBRDF_Unclamped(light, position, normal0, w_o0, roughness0, metallic0, albedo0) ==
  Only({ VScale(VMul(VAdd(l.diffuseBRDF, l.specularBRDF),
                     calculatePointLight(light, position)),
                l.nDotL)
         : l \in {BRDFLocals(light, position, normal0, w_o0, roughness0,
                             metallic0, albedo0)} })

calculateBRDF(light, position, normal0, w_o0, roughness0, metallic0, albedo0) ==
  Only({ VScale(VMul(VAdd(l.diffuseBRDF, l.specularBRDF),
                     calculatePointLight(light, position)),
                FMax(l.nDotL, Zero))
         : l \in {BRDFLocals(light, position, normal0, w_o0, roughness0,
                             metallic0, albedo0)} })

----------------------------------------------------------------------------
(* main() of the fragment shader, one action per stage                     *)

\* uLightPositions[idx] and its like; an index outside the array reads an
\* undefined value.
ReadArray(arr, idx) == IF idx \in DOMAIN arr THEN arr[idx] ELSE invalid

\* i <= MAX_LIGHTS in place of i < MAX_LIGHTS
LoopCondition_OffByOne(j) == j <= MAX_LIGHTS

\* for (int i = 0; i < MAX_LIGHTS; i++)
LoopCondition(j) == j < MAX_LIGHTS

\* i > uLightCount in place of i >= uLightCount
LoopBreak_OffByOne(j) == j > uLightCount

\* if (i >= uLightCount) break;
LoopBreak(j) == j >= uLightCount

\* PointLight light, filled from the arrays at index j
LightAt(j) ==
  [pos |-> <<ReadArray(uLightPositions, j * 3),
             ReadArray(uLightPositions, j * 3 + 1),
             ReadArray(uLightPositions, j * 3 + 2)>>,
   color |-> <<ReadArray(uLightColors, j * 3),
               ReadArray(uLightColors, j * 3 + 1),
               ReadArray(uLightColors, j * 3 + 2)>>,
   intensity |-> ReadArray(uLightIntensities, j)]

LightReads(j) ==
  {<<"uLightPositions", j * 3 + d>> : d \in 0..2}
    \cup {<<"uLightColors", j * 3 + d>> : d \in 0..2}
    \cup {<<"uLightIntensities", j>>}

\* vec3 albedo = sRGBToLinear(...).rgb; w_o; normal; irradiance = vec3(0.0)
MainDecode ==
  /\ FragFrame
  /\ pc = "start"
  /\ albedo' = SubSeq(sRGBToLinear(Append(uMaterial.albedo, One)), 1, 3)
  /\ w_o' = normalize(ViewDirectionWS)
  /\ normal' = normalize(vNormalWS)
  /\ irradiance' = vec3(Zero)
  /\ i' = 0
  /\ trace' = Append(trace, "decode")
  /\ pc' = "loop"
  /\ UNCHANGED <<uniformVars, outFragColor, reads, prevOut>>

\* one iteration of the light loop
MainLight ==
  /\ FragFrame
  /\ pc = "loop"
  /\ LoopCondition(i)
  /\ ~LoopBreak(i)
  /\ \E light \in {LightAt(i)} :
       irradiance' = VAdd(irradiance,
                          calculateBRDF(light, vPositionWS, normal, w_o,
                                        roughness, metallic, albedo))
  /\ reads' = reads \cup LightReads(i)
  /\ i' = i + 1
  /\ trace' = Append(trace, "light")
  /\ UNCHANGED <<uniformVars, pc, albedo, w_o, normal, outFragColor, prevOut>>

\* the loop ends: its condition fails, or the break is taken
MainLoopExit ==
  /\ FragFrame
  /\ pc = "loop"
  /\ \/ ~LoopCondition(i)
     \/ LoopCondition(i) /\ LoopBreak(i)
  /\ pc' = "tonemap"
  /\ UNCHANGED <<uniformVars, i, albedo, w_o, normal, irradiance, outFragColor,
                 trace, reads, prevOut>>

\* the tone mapping left out
MainTonemap_Skipped ==
  /\ FragFrame
  /\ pc = "tonemap"
  /\ pc' = "encode"
  /\ UNCHANGED <<uniformVars, i, albedo, w_o, normal, irradiance, outFragColor,
                 trace, reads, prevOut>>

\* irradiance = tonemap(irradiance);
MainTonemap ==
  /\ FragFrame
  /\ pc = "tonemap"
  /\ irradiance' = tonemap(irradiance)
  /\ trace' = Append(trace, "tonemap")
  /\ pc' = "encode"
  /\ UNCHANGED <<uniformVars, i, albedo, w_o, normal, outFragColor, reads, prevOut>>

\* outFragColor = LinearTosRGB(vec4(irradiance, 1.0));
MainEncode ==
  /\ FragFrame
  /\ pc = "encode"
  /\ outFragColor' = LinearTosRGB(Append(irradiance, One))
  /\ trace' = Append(trace, "encode")
  /\ pc' = "done"
  /\ UNCHANGED <<uniformVars, i, albedo, w_o, normal, irradiance, reads, prevOut>>

----------------------------------------------------------------------------
(* The draws the fragment shader is checked on                             *)

F(n) == FromInt(n)

\* Lights: in front of the surface, to its side, and behind it.
LightPalette ==
  <<[pos |-> <<F(0), F(0), F(5)>>, color |-> <<One, One, One>>,
     intensity |-> F(2000)],
    [pos |-> <<F(3), F(0), F(4)>>, color |-> <<One, Lit(1, 2), Zero>>,
     intensity |-> F(500)],
    [pos |-> <<F(0), F(3), F(-4)>>, color |-> <<One, One, One>>,
     intensity |-> F(2000)]>>

\* A scene gives each of the MAX_LIGHTS array slots a light of the palette.
Scenes == {[j \in 0..(MAX_LIGHTS - 1) |-> (j % 3) + 1],
           [j \in 0..(MAX_LIGHTS - 1) |-> 1]}

LightCounts == {-1, 0, 1, 2, MAX_LIGHTS, MAX_LIGHTS + 1}

Materials ==
  {[albedo |-> <<One, One, One>>, roughness |-> Lit(1, 2), metallic |-> Zero],
   [albedo |-> <<Lit(1, 2), One, Lit(2, 100)>>, roughness |-> Lit(1, 100),
    metallic |-> One]}

ViewDirections == {<<F(0), F(0), F(2)>>, <<F(0), F(3), F(4)>>}

\* Values the driver may leave in an element of a light array.
ElementValues == {NaN, F(7)}

\* The state of main()'s locals before an invocation.
MainEntry ==
  /\ pc = "start"
  /\ i = 0
  /\ albedo = Zero3
  /\ w_o = Zero3
  /\ normal = Zero3
  /\ irradiance = Zero3
  /\ outFragColor = <<>>
  /\ trace = <<>>
  /\ reads = {}

InitFrag ==
  /\ invalid \in InvalidOutcomes
  /\ uLightCount \in LightCounts
  /\ \E sc \in Scenes :
       /\ uLightPositions =
            [x \in 0..(MAX_LIGHTS * 3 - 1) |-> LightPalette[sc[x \div 3]].pos[(x % 3) + 1]]
       /\ uLightColors =
            [x \in 0..(MAX_LIGHTS * 3 - 1) |-> LightPalette[sc[x \div 3]].color[(x % 3) + 1]]
       /\ uLightIntensities =
            [x \in 0..(MAX_LIGHTS - 1) |-> LightPalette[sc[x]].intensity]
  /\ \E mat \in Materials :
       /\ uMaterial = [albedo |-> mat.albedo]
       /\ roughness = mat.roughness
       /\ metallic = mat.metallic
  /\ vPositionWS = Zero3
  /\ vNormalWS = <<F(0), F(0), F(2)>>
  /\ ViewDirectionWS \in ViewDirections
  /\ MainEntry
  /\ prevOut = <<>>

\* The first array slot the loop must leave alone.
FirstInactive == IF uLightCount < 0 THEN 0 ELSE uLightCount

\* Between two draws the driver writes v to one element, at an index at or
\* past uLightCount, of one light array; the fragment is then shaded again.
SetInactiveElement ==
  /\ FragFrame
  /\ pc = "done"
  /\ prevOut = <<>>
  /\ FirstInactive < MAX_LIGHTS
  /\ \E v \in ElementValues :
       \/ \E x \in {3 * FirstInactive, 3 * MAX_LIGHTS - 1} :
            /\ uLightPositions' = [uLightPositions EXCEPT ![x] = v]
            /\ UNCHANGED <<uLightColors, uLightIntensities>>
       \/ \E x \in {3 * FirstInactive, 3 * MAX_LIGHTS - 1} :
            /\ uLightColors' = [uLightColors EXCEPT ![x] = v]
            /\ UNCHANGED <<uLightPositions, uLightIntensities>>
       \/ \E x \in {FirstInactive, MAX_LIGHTS - 1} :
            /\ uLightIntensities' = [uLightIntensities EXCEPT ![x] = v]
            /\ UNCHANGED <<uLightPositions, uLightColors>>
  /\ prevOut' = outFragColor
  /\ pc' = "start"
  /\ i' = 0
  /\ albedo' = Zero3
  /\ w_o' = Zero3
  /\ normal' = Zero3
  /\ irradiance' = Zero3
  /\ outFragColor' = <<>>
  /\ trace' = <<>>
  /\ reads' = {}
  /\ UNCHANGED <<uLightCount, uMaterial, roughness, metallic,
                 vPositionWS, vNormalWS, ViewDirectionWS>>

NextFrag ==
  \/ MainDecode
  \/ MainLight
  \/ MainLoopExit
  \/ MainTonemap
  \/ MainEncode
  \/ SetInactiveElement

\* No call of calculateBRDF is under way.
BRDFIdle == bpc = "idle" /\ call = <<>> /\ ret = <<>>

\* No call of tonemap is under way.
ToneIdle == tpc = "idle" /\ tin = Zero /\ tout = <<>>

\* No fragment is being shaded.
FragIdle ==
  /\ uLightCount = 0
  /\ uLightPositions = <<>>
  /\ uLightColors = <<>>
  /\ uLightIntensities = <<>>
  /\ uMaterial = [albedo |-> Zero3]
  /\ roughness = Zero
  /\ metallic = Zero
  /\ vPositionWS = Zero3
  /\ vNormalWS = Zero3
  /\ ViewDirectionWS = Zero3
  /\ pc = "idle"
  /\ i = 0
  /\ albedo = Zero3
  /\ w_o = Zero3
  /\ normal = Zero3
  /\ irradiance = Zero3
  /\ outFragColor = <<>>
  /\ trace = <<>>
  /\ reads = {}
  /\ prevOut = <<>>

\* No Application has been constructed.
AppIdle ==
  /\ guiProperties = <<>>
  /\ lights = <<>>
  /\ sphereProperties = <<>>
  /\ uniforms = <<>>
  /\ draws = <<>>
  /\ guiChanges = 0

InitFragSpec == InitFrag /\ BRDFIdle /\ ToneIdle /\ AppIdle

\* The fragment shader's main(), shading one fragment per draw.
SpecFrag == InitFragSpec /\ [][NextFrag]_vars

----------------------------------------------------------------------------
(* calculateBRDF on its own                                                *)

\* Lights in front of the surface point, to its side, behind it, opposite
\* to the straight view direction, in the tangent plane, and at the surface
\* point itself (lit and dark).
BRDFLights ==
  {[pos |-> <<F(0), F(0), F(5)>>, color |-> <<One, One, One>>, intensity |-> F(2000)],
   [pos |-> <<F(3), F(0), F(4)>>, color |-> <<One, Lit(1, 2), Zero>>, intensity |-> F(500)],
   [pos |-> <<F(0), F(3), F(-4)>>, color |-> <<One, One, One>>, intensity |-> F(2000)],
   [pos |-> <<F(0), F(0), F(-5)>>, color |-> <<One, One, One>>, intensity |-> F(2000)],
   [pos |-> <<F(5), F(0), F(0)>>, color |-> <<One, One, One>>, intensity |-> F(2000)],
   [pos |-> <<F(0), F(0), F(0)>>, color |-> <<One, One, One>>, intensity |-> F(2000)],
   [pos |-> <<F(0), F(0), F(0)>>, color |-> <<One, One, One>>, intensity |-> F(0)]}

\* Unit view directions: straight on, oblique, grazing.
BRDFViews == {<<Zero, Zero, One>>, <<Zero, Lit(6, 10), Lit(8, 10)>>, <<One, Zero, Zero>>}

BRDFRoughness == {Lit(1, 100), Lit(1, 2), One}
BRDFMetallic == {Zero, Lit(1, 2), One}
BRDFAlbedo == {<<One, One, One>>, <<Lit(1, 2), Lit(2, 10), Zero>>, Zero3}

InitBRDF ==
  /\ invalid \in InvalidOutcomes
  /\ bpc = "call"
  /\ call \in [light : BRDFLights, position : {Zero3}, normal : {<<Zero, Zero, One>>},
               w_o : BRDFViews, roughness : BRDFRoughness,
               metallic : BRDFMetallic, albedo : BRDFAlbedo]
  /\ ret = <<>>

\* calculateBRDF runs on the arguments of the call; its locals, the value
\* and the divisor of calculatePointLight, and its value are kept.
BRDFReturn ==
  /\ BRDFFrame
  /\ bpc = "call"
  /\ ret' = [locals |-> BRDFLocals(call.light, call.position, call.normal, call.w_o,
                                   call.roughness, call.metallic, call.albedo),
             divisor |-> calculatePointLightDivisor(call.light, call.position),
             radiance |-> calculatePointLight(call.light, call.position),
             value |-> calculateBRDF(call.light, call.position, call.normal, call.w_o,
                                     call.roughness, call.metallic, call.albedo)]
  /\ bpc' = "ret"
  /\ UNCHANGED call

InitBRDFSpec == InitBRDF /\ FragIdle /\ ToneIdle /\ AppIdle

NextBRDF == BRDFReturn

SpecBRDF == InitBRDFSpec /\ [][NextBRDF]_vars

----------------------------------------------------------------------------
(* tonemap on its own                                                      *)

\* The sweep covers zero and every value from 2^(-ToneFractionBits) up to
\* 2^(PREC + 2), past the point where c + 1.0 rounds to c.
ToneFractionBits == 2

\* The channel value after c in the sweep: the next representable one.
ToneSucc(c) ==
  IF IsZero(c) THEN Fin(2 ^ (PREC - 1), -ToneFractionBits - (PREC - 1))
  ELSE IF c.m + 1 = 2 ^ PREC THEN Fin(2 ^ (PREC - 1), c.e + 1)
  ELSE Fin(c.m + 1, c.e)

\* A sweep starts at zero or at a power of two.
ToneStarts == {Zero} \cup {Fin(2 ^ (PREC - 1), e - (PREC - 1)) : e \in (-ToneFractionBits)..(PREC + 2)}

InitTone ==
  /\ invalid \in InvalidOutcomes
  /\ tpc = "call"
  /\ tin \in ToneStarts
  /\ tout = [value |-> Zero, top |-> Zero]

\* tonemap runs on a colour whose channels are all tin; top is the largest
\* value it has returned so far, all of them for smaller channel values.
ToneReturn ==
  /\ ToneFrame
  /\ tpc = "call"
  /\ \E t \in {tonemap(vec3(tin))} :
       tout' = [value |-> t[1], top |-> FMax(tout.top, tout.value)]
  /\ tpc' = "ret"
  /\ UNCHANGED tin

\* The next call is made on the next channel value.
ToneCall ==
  /\ ToneFrame
  /\ tpc = "ret"
  /\ tin.e + (PREC - 1) < PREC + 2
  /\ tin' = ToneSucc(tin)
  /\ tpc' = "call"
  /\ UNCHANGED tout

InitToneSpec == InitTone /\ FragIdle /\ BRDFIdle /\ AppIdle

NextTone ==
  \/ ToneReturn
  \/ ToneCall

SpecTone == InitToneSpec /\ [][NextTone]_vars

----------------------------------------------------------------------------
(* Claims about main()                                                     *)

\* The array elements that belong to the lights 0 .. uLightCount-1.
ActiveElements ==
  {<<"uLightPositions", x>> : x \in 0..(3 * uLightCount - 1)}
    \cup {<<"uLightColors", x>> : x \in 0..(3 * uLightCount - 1)}
    \cup {<<"uLightIntensities", x>> : x \in 0..(uLightCount - 1)}

\* The number of lights main() has evaluated.
LightsEvaluated == Cardinality({x \in 1..Len(trace) : trace[x] = "light"})

\* C1: only the lights 0 .. uLightCount-1 contribute.  main() reads no
\* array element at an index at or past uLightCount; after one such element
\* is changed the same fragment gets the same colour; and with
\* uLightCount = 0 the irradiance before tone mapping is (0,0,0).
C1_OnlyActiveLightsContribute ==
  /\ reads \subseteq ActiveElements
  /\ (pc = "done" /\ prevOut # <<>>) => outFragColor = prevOut
  /\ (pc = "tonemap" /\ uLightCount = 0) => irradiance = Zero3

\* A fragment lit by an active light is shaded again after an element of
\* an inactive light changed.
C1_Witness ==
  /\ pc = "done"
  /\ prevOut # <<>>
  /\ uLightCount >= 1
  /\ uLightCount < MAX_LIGHTS
  /\ outFragColor[1].k = "fin"
  /\ outFragColor[1].m > 0

\* The stages of an invocation that evaluates n lights.
Stages(n) == <<"decode">> \o [x \in 1..n |-> "light"] \o <<"tonemap", "encode">>

\* The number of lights an invocation evaluates.
ActiveLights ==
  IF uLightCount < 0 THEN 0
  ELSE IF uLightCount > MAX_LIGHTS THEN MAX_LIGHTS
  ELSE uLightCount

\* C4: the stages run in the order decode, lights, tone map, encode: at
\* every point the stages run so far are a prefix of that order, a finished
\* invocation has run exactly one decode, one evaluation per active light,
\* one tone map and one encode, and its output is the encoding of the
\* tone-mapped irradiance with alpha 1.
C4_StageOrder ==
  /\ trace = SubSeq(Stages(LightsEvaluated), 1, Len(trace))
  /\ pc = "done" =>
       /\ trace = Stages(ActiveLights)
       /\ outFragColor = LinearTosRGB(Append(irradiance, One))
       /\ outFragColor[4] = One

\* An invocation that evaluated two lights has finished.
C4_Witness == pc = "done" /\ LightsEvaluated = 2 /\ Len(trace) = 5

\* C9: a light count above MAX_LIGHTS is clamped.  Every read of a light
\* array is inside the array, the loop runs at most MAX_LIGHTS iterations,
\* exactly MAX_LIGHTS when uLightCount > MAX_LIGHTS, and none when
\* uLightCount is negative.
C9_LightCountClamped ==
  /\ \A rd \in reads :
       rd[2] \in 0..(IF rd[1] = "uLightIntensities"
                     THEN MAX_LIGHTS - 1 ELSE 3 * MAX_LIGHTS - 1)
  /\ i <= MAX_LIGHTS
  /\ LightsEvaluated <= MAX_LIGHTS
  /\ (pc \in {"tonemap", "encode", "done"} /\ uLightCount > MAX_LIGHTS) =>
       (i = MAX_LIGHTS /\ LightsEvaluated = MAX_LIGHTS)
  /\ uLightCount < 0 => (LightsEvaluated = 0 /\ reads = {})

\* An invocation with uLightCount > MAX_LIGHTS has finished.
C9_Witness ==
  pc = "done" /\ uLightCount > MAX_LIGHTS /\ LightsEvaluated = MAX_LIGHTS


----------------------------------------------------------------------------
(* The Application: constructor, GUI controllers, render()                 *)

rows == 5
columns == 5

Grid == (0..(rows - 1)) \X (0..(columns - 1))

\* The constructor: uniforms, GUI defaults, four lights, and the material
\* of each sphere of the grid.
InitApp ==
  /\ invalid = NaN
  /\ uniforms = [roughness |-> Lit(1, 2), metallic |-> Zero, albedo |-> Zero3,
                 uLightCount |-> 0, uLightPositions |-> <<>>,
                 uLightColors |-> <<>>, uLightIntensities |-> <<>>]
  /\ guiProperties = [albedo |-> <<255, 255, 255>>, roughness |-> Lit(1, 2),
                      metallic |-> Zero]
  /\ lights = <<[positionWS |-> <<F(-10), F(10), F(10)>>, color |-> vec3(One),
                 intensity |-> F(2000)],
                [positionWS |-> <<F(10), F(10), F(10)>>, color |-> vec3(One),
                 intensity |-> F(2000)],
                [positionWS |-> <<F(-10), F(-10), F(10)>>, color |-> vec3(One),
                 intensity |-> F(2000)],
                [positionWS |-> <<F(10), F(-10), F(10)>>, color |-> vec3(One),
                 intensity |-> F(2000)]>>
  /\ sphereProperties =
       [rc \in Grid |->
          [roughness |-> FAdd(Lit(1, 100),
                              FMul(FDiv(F(rc[2]), F(columns - 1)), Lit(99, 100))),
           metallic |-> FDiv(F(rc[1]), F(rows - 1))]]
  /\ draws = <<>>
  /\ guiChanges = 0

\* The number of GUI changes explored.
MaxGuiChanges == 2

\* A number controller made with (min, max) keeps the value it is given
\* within [min, max].
ClampSlider(v, min, max) == IF FLt(v, min) THEN min ELSE IF FLt(max, v) THEN max ELSE v

\* Values a pointer drags a slider to, before the controller keeps them in
\* range; colours a colour picker yields.
SliderInputs == {F(-20), Lit(1, 2), F(3000)}
PickerColors == {<<255, 128, 0>>}

\* The spheres and lights whose controllers are moved.
GuiSpheres == {<<0, 0>>, <<rows - 1, columns - 1>>}
GuiLights == {Len(lights)}

GuiChange ==
  /\ AppFrame
  /\ guiChanges < MaxGuiChanges
  /\ guiChanges' = guiChanges + 1
  /\ UNCHANGED <<uniforms, draws>>

\* gui.addColor(this._guiProperties, 'albedo')
SetAlbedo ==
  /\ GuiChange
  /\ \E v \in PickerColors : guiProperties' = [guiProperties EXCEPT !.albedo = v]
  /\ UNCHANGED <<lights, sphereProperties>>

\* lightFolder.addColor(colorWrapper, 'color').onChange(...)
SetLightColor ==
  /\ GuiChange
  /\ \E n \in GuiLights, v \in PickerColors :
       lights' = [lights EXCEPT ![n].color =
                    <<FDiv(F(v[1]), F(255)), FDiv(F(v[2]), F(255)), FDiv(F(v[3]), F(255))>>]
  /\ UNCHANGED <<guiProperties, sphereProperties>>

\* lightFolder.add(light, 'intensity', 0.0, 2000.0)
SetLightIntensity ==
  /\ GuiChange
  /\ \E n \in GuiLights, v \in SliderInputs :
       lights' = [lights EXCEPT ![n].intensity = ClampSlider(v, Zero, F(2000))]
  /\ UNCHANGED <<guiProperties, sphereProperties>>

\* lightFolder.add(light.positionWS, '0' | '1' | '2', -10.0, 10.0)
SetLightPosition ==
  /\ GuiChange
  /\ \E n \in GuiLights, axis \in 1..3, v \in SliderInputs :
       lights' = [lights EXCEPT ![n].positionWS[axis] = ClampSlider(v, F(-10), F(10))]
  /\ UNCHANGED <<guiProperties, sphereProperties>>

\* sphereFolder.add(this._sphereProperties[r][c], 'metallic', 0.0, 1.0)
SetSphereMetallic ==
  /\ GuiChange
  /\ \E rc \in GuiSpheres, v \in SliderInputs :
       sphereProperties' =
         [sphereProperties EXCEPT ![rc].metallic = ClampSlider(v, Zero, One)]
  /\ UNCHANGED <<guiProperties, lights>>

\* sphereFolder.add(this._sphereProperties[r][c], 'roughness', 0.01, 1.0)
SetSphereRoughness ==
  /\ GuiChange
  /\ \E rc \in GuiSpheres, v \in SliderInputs :
       sphereProperties' =
         [sphereProperties EXCEPT ![rc].roughness = ClampSlider(v, Lit(1, 100), One)]
  /\ UNCHANGED <<guiProperties, lights>>

\* positions / colors: three consecutive elements per light
RECURSIVE Flatten(_, _)
Flatten(ls, field) ==
  IF ls = <<>> THEN <<>> ELSE Head(ls)[field] \o Flatten(Tail(ls), field)

\* The uniforms render() has set when it reaches the loop over the grid.
FrameUniforms ==
  [uniforms EXCEPT
     !.albedo = <<FDiv(F(guiProperties.albedo[1]), F(255)),
                  FDiv(F(guiProperties.albedo[2]), F(255)),
                  FDiv(F(guiProperties.albedo[3]), F(255))>>,
     !.roughness = guiProperties.roughness,
     !.metallic = guiProperties.metallic,
     !.uLightCount = Len(lights),
     !.uLightPositions = Flatten(lights, "positionWS"),
     !.uLightColors = Flatten(lights, "color"),
     !.uLightIntensities = [n \in 1..Len(lights) |-> lights[n].intensity]]

\* The loop over the grid without its two assignments to the uniforms.
SphereUniforms_FrameDefaults(u, rc) == u

\* The uniforms of the draw of sphere [r][c].
SphereUniforms(u, rc) ==
  [u EXCEPT !.metallic = sphereProperties[rc].metallic,
            !.roughness = sphereProperties[rc].roughness]

\* render(): one draw for each sphere of the grid; the uniforms are left as
\* the last draw had them.
Render ==
  /\ AppFrame
  /\ draws' = [rc \in Grid |-> SphereUniforms(FrameUniforms, rc)]
  /\ uniforms' = SphereUniforms(FrameUniforms, <<rows - 1, columns - 1>>)
  /\ UNCHANGED <<guiProperties, lights, sphereProperties, guiChanges>>

NextApp ==
  \/ SetAlbedo
  \/ SetLightColor
  \/ SetLightIntensity
  \/ SetLightPosition
  \/ SetSphereMetallic
  \/ SetSphereRoughness
  \/ Render

InitAppSpec == InitApp /\ FragIdle /\ BRDFIdle /\ ToneIdle

SpecApp == InitAppSpec /\ [][NextApp]_vars

----------------------------------------------------------------------------
(* Claims about calculateBRDF and calculatePointLight                      *)

\* (diffuseBRDF + specularBRDF) * radiance, everything but the cosine factor
OtherFactors == VMul(VAdd(ret.locals.diffuseBRDF, ret.locals.specularBRDF), ret.radiance)

\* C2: a light at or behind the horizon of the surface (dot(normal, w_i) <= 0)
\* whose other factors are finite contributes exactly (0,0,0).
C2_BackfaceContributesZero ==
  (bpc = "ret" /\ FLe(ret.locals.nDotL, Zero) /\ VFinite(OtherFactors))
    => ret.value = Zero3

\* A light behind the surface whose other factors are finite and not zero.
C2_Witness ==
  /\ bpc = "ret"
  /\ FLt(ret.locals.nDotL, Zero)
  /\ VFinite(OtherFactors)
  /\ OtherFactors # Zero3
  /\ ret.value = Zero3

\* C3, as stated: when the light is at the surface point (d = 0),
\* calculatePointLight returns zero and its divisor is not zero.
C3_CoincidentLightIsZero ==
  (bpc = "ret" /\ call.light.pos = call.position)
    => (ret.radiance = Zero3 /\ ~IsZero(ret.divisor))

\* The value (D * G) / (4 max(..) max(..)) recomputed from the arguments of
\* the call, with no Fresnel term in it.
CallHalfVector == normalize(VAdd(ret.locals.w_i, call.w_o))

CallTerm ==
  SpecularTerm(calculateDistributionGGX(call.normal, CallHalfVector, call.roughness),
               calculateGeometrySmith(call.normal, ret.locals.w_i, call.w_o,
                                      FDiv(FMul(FAdd(call.roughness, One),
                                                FAdd(call.roughness, One)),
                                           FromInt(8))),
               call.normal, call.w_o, ret.locals.w_i)

\* C5: the specular contribution is the Fresnel term kS times
\* (D * G) / (4 max(..) max(..)), Fresnel being applied once, and the value
\* of calculateSpecularBRDF does not depend on F0.
C5_FresnelAppliedOnce ==
  bpc = "ret" =>
    /\ ret.locals.specularBRDF = VMul(ret.locals.kS, vec3(CallTerm))
    /\ \A F0 \in {Zero3, vec3(One)} :
         calculateSpecularBRDF(call.albedo, call.normal, call.w_o, ret.locals.w_i,
                               call.roughness, call.metallic, F0)
           = ret.locals.spec

\* A call whose specular term is finite and not zero and whose Fresnel
\* term is finite and not one.
C5_Witness ==
  /\ bpc = "ret"
  /\ IsFinite(CallTerm) /\ ~IsZero(CallTerm)
  /\ VFinite(ret.locals.kS) /\ ret.locals.kS # vec3(One)
  /\ ret.locals.specularBRDF # ret.locals.spec
  /\ ret.locals.specularBRDF = VMul(ret.locals.kS, ret.locals.spec)

\* C6, as stated: with metallic = 1 the diffuse term is (0,0,0) whatever the
\* albedo and the Fresnel term; with metallic = 0 the base reflectance F0 is
\* (0.04,0.04,0.04) whatever the albedo.
C6_MetallicLimits ==
  bpc = "ret" =>
    /\ call.metallic = One => ret.locals.diffuseBRDF = Zero3
    /\ call.metallic = Zero => ret.locals.F0 = vec3(Lit(4, 100))

\* (1 - kS) (1 - metallic) + kS, one channel
EnergyWeight(kS, m) == FAdd(FMul(FSub(One, kS), FSub(One, m)), kS)

\* C7, as stated: for unit view and light directions every channel of kS is
\* in [0,1] and (1 - kS)(1 - metallic) + kS is at most 1.
C7_FresnelWeightsBounded ==
  (bpc = "ret" /\ call.light.pos # call.position) =>
    \A ch \in 1..3 :
      /\ FLe(Zero, ret.locals.kS[ch])
      /\ FLe(ret.locals.kS[ch], One)
      /\ FLe(EnergyWeight(ret.locals.kS[ch], call.metallic), One)

----------------------------------------------------------------------------
(* Claims about tonemap                                                    *)

----------------------------------------------------------------------------
(* Claims about Application.render                                         *)

\* C10: every draw of render() carries the roughness and metallic of its own
\* sphere, with roughness in [0.01, 1] and metallic in [0, 1], and a light
\* count equal to the number of lights, which is at most MAX_LIGHTS.
C10_DrawsCarrySphereProperties ==
  [][Render =>
       \A rc \in Grid :
         /\ draws'[rc].roughness = sphereProperties[rc].roughness
         /\ draws'[rc].metallic = sphereProperties[rc].metallic
         /\ FLe(Lit(1, 100), draws'[rc].roughness) /\ FLe(draws'[rc].roughness, One)
         /\ FLe(Zero, draws'[rc].metallic) /\ FLe(draws'[rc].metallic, One)
         /\ draws'[rc].uLightCount = Len(lights)
         /\ draws'[rc].uLightCount <= MAX_LIGHTS]_vars

\* A frame drawn after sliders were dragged below the range of roughness
\* and above the range of metallic: the first sphere is drawn with
\* roughness 0.01 and metallic 1, neither of them the GUI default.
C10_Witness ==
  /\ draws # <<>>
  /\ guiChanges = MaxGuiChanges
  /\ sphereProperties[<<0, 0>>] = [roughness |-> Lit(1, 100), metallic |-> One]
  /\ draws[<<0, 0>>].roughness = Lit(1, 100)
  /\ draws[<<0, 0>>].metallic = One
  /\ draws[<<0, 0>>].metallic # guiProperties.metallic
  /\ draws[<<rows - 1, columns - 1>>].roughness = One
  /\ draws[<<0, 0>>].uLightCount = Len(lights)

=============================================================================
